---------------------------- MODULE Spec2Model ----------------------------
(***************************************************************************)
(* Request-ingestion pipeline of groupware-warp: the query-parameter       *)
(* normalizers (company/routes.rs, user/routes.rs), the JSON body decoders *)
(* (company/routes.rs), the multipart ingestion (user/routes.rs) and the   *)
(* users find-query builder (user/controllers.rs).                         *)
(*                                                                         *)
(* Text that the code inspects (limit strings, decode errors, filenames,   *)
(* content types, part payloads) is a sequence of byte values; text that   *)
(* the code only compares or passes on is a TLA+ string.                   *)
(***************************************************************************)
EXTENDS Integers, Sequences, FiniteSets, TLC

\* ------------------------------------------------------------- bounds
MaxLimitLen == 3
MaxSearchLen == 2
MaxErrLen == 7
MaxParts == 2

\* ------------------------------------------------------------ options
None == <<>>
Some(x) == <<x>>
IsSome(o) == o # <<>>
Unwrap(o) == o[1]

\* All sequences over S of length at most n.
SeqsUpTo(S, n) == UNION {[1..k -> S] : k \in 0..n}

\* --------------------------------------------------- str::parse::<u32>
\* The decimal digits of u32::MAX, 4294967295.
U32MaxDigits == <<52, 50, 57, 52, 57, 54, 55, 50, 57, 53>>

IsDigit(b) == b \in 48..57

RECURSIVE StripZeros(_)
StripZeros(s) == IF s # <<>> /\ s[1] = 48 THEN StripZeros(Tail(s)) ELSE s

RECURSIVE LexGreater(_, _)
\* Of two digit strings of one length, whether the first is the greater number.
LexGreater(a, b) ==
    IF a = <<>> THEN FALSE
    ELSE IF a[1] # b[1] THEN a[1] > b[1]
    ELSE LexGreater(Tail(a), Tail(b))

\* The checked multiply-and-add of the parse overflows: the number exceeds u32::MAX.
Overflows(digits) ==
    LET sig == StripZeros(digits) IN
    Len(sig) > 10 \/ (Len(sig) = 10 /\ LexGreater(sig, U32MaxDigits))

RECURSIVE DigitsValue(_)
DigitsValue(s) ==
    IF s = <<>> THEN 0
    ELSE 10 * DigitsValue(SubSeq(s, 1, Len(s) - 1)) + (s[Len(s)] - 48)

\* u32::from_str: an optional leading '+', then at least one decimal digit;
\* '-' is not a sign of an unsigned type.
ParseU32(s) ==
    IF s = <<>>
    THEN [ok |-> FALSE, value |-> 0, error |-> "cannot parse integer from empty string"]
    ELSE LET digits == IF s[1] = 43 THEN Tail(s) ELSE s IN
         IF digits = <<>> \/ \E k \in 1..Len(digits) : ~IsDigit(digits[k])
         THEN [ok |-> FALSE, value |-> 0, error |-> "invalid digit found in string"]
         ELSE IF Overflows(digits)
         THEN [ok |-> FALSE, value |-> 0, error |-> "number too large to fit in target type"]
         ELSE [ok |-> TRUE, value |-> DigitsValue(digits), error |-> ""]

\* ------------------------------------------------- with_find_request
FindRequestDefault == [search |-> None, sort_by |-> None, limit |-> None]

FindOk(req) == [kind |-> "Ok", req |-> req, field |-> "", message |-> ""]
FindErr(field, message) ==
    [kind |-> "Err", req |-> FindRequestDefault, field |-> field, message |-> message]

\* The condition under which the limit is rejected.
LimitRejected(limit) == limit < 1 /\ limit > 100

CompanySortByAllowed == {"name", "since"}
CompanySortByMessage == "Must be one of name and email"
UserSortByAllowed == {"name", "email"}
UserSortByMessage == "Must be one of name and email"

\* The closure of with_find_request; the two resources differ in the set of
\* sort_by values matched and share everything else.
NormalizeFind(p, allowed, sortMessage) ==
    LET req1 == IF IsSome(p.search)
                THEN [FindRequestDefault EXCEPT !.search = p.search]
                ELSE FindRequestDefault
    IN  IF IsSome(p.sort_by) /\ Unwrap(p.sort_by) \notin allowed
        THEN FindErr("sort_by", sortMessage)
        ELSE LET req2 == IF IsSome(p.sort_by)
                         THEN [req1 EXCEPT !.sort_by = p.sort_by]
                         ELSE req1
             IN  IF ~IsSome(p.limit)
                 THEN FindOk(req2)
                 ELSE LET r == ParseU32(Unwrap(p.limit)) IN
                      IF ~r.ok THEN FindErr("limit", r.error)
                      ELSE IF LimitRejected(r.value)
                      THEN FindErr("limit", "Must be between 1 and 100")
                      ELSE FindOk([req2 EXCEPT !.limit = Some(r.value)])

CompanyFindRequest(p) == NormalizeFind(p, CompanySortByAllowed, CompanySortByMessage)
UserFindRequest(p) == NormalizeFind(p, UserSortByAllowed, UserSortByMessage)

\* --------------------------------------------------------- find_users
RECURSIVE Join(_)
\* terms.join(" ")
Join(ts) ==
    IF ts = <<>> THEN ""
    ELSE IF Len(ts) = 1 THEN ts[1]
    ELSE ts[1] \o " " \o Join(Tail(ts))

\* The terms find_users pushes; the request is not a parameter of it.
FindUsersTerms == <<"FOR x IN companies", "RETURN x">>
\* The bind variables find_users passes: the map stays empty.
FindUsersVars == [x \in {} |-> <<>>]

\* ------------------------------------- decode error -> ParsingError
Separator == <<58, 32>>

IsPrefix(p, s) == Len(p) <= Len(s) /\ SubSeq(s, 1, Len(p)) = p

RECURSIVE Split(_, _)
\* str::split(sep): the pieces between the non-overlapping occurrences of
\* sep, found left to right; a text without sep is one piece.
Split(s, sep) ==
    IF \E k \in 1..Len(s) : IsPrefix(sep, SubSeq(s, k, Len(s)))
    THEN LET k == CHOOSE j \in 1..Len(s) :
                     /\ IsPrefix(sep, SubSeq(s, j, Len(s)))
                     /\ \A m \in 1..(j - 1) : ~IsPrefix(sep, SubSeq(s, m, Len(s)))
         IN  <<SubSeq(s, 1, k - 1)>> \o Split(SubSeq(s, k + Len(sep), Len(s)), sep)
    ELSE <<s>>

JsonPending == [kind |-> "Pending", variant |-> "", field |-> <<>>, message |-> <<>>, cause |-> ""]
JsonOk == [JsonPending EXCEPT !.kind = "Ok"]
JsonParsingError(field, message) ==
    [JsonPending EXCEPT !.kind = "Err", !.variant = "ParsingError",
                        !.field = field, !.message = message]
JsonValidationError == [JsonPending EXCEPT !.kind = "Err", !.variant = "ValidationError"]
JsonPanic(cause) == [JsonPending EXCEPT !.kind = "Panic", !.cause = cause]

\* The Err arm of the decode: pieces[0] and pieces[1] of the split error
\* text; indexing a Vec past its length panics.
DecodeFailure(text) ==
    LET pieces == Split(text, Separator) IN
    IF Len(pieces) < 2 THEN JsonPanic("index out of bounds")
    ELSE JsonParsingError(pieces[1], pieces[2])

\* One of the three validate_*_params of the company routes, which are the
\* same code over three parameter types.
DecodeAndValidate(b) ==
    IF b.decoded
    THEN IF b.valid THEN JsonOk ELSE JsonValidationError
    ELSE DecodeFailure(b.error)

\* --------------------------------------------------- accept_uploading
ImagePrefix == <<105, 109, 97, 103, 101, 47>>
InvalidTypePrefix ==
    <<105, 110, 118, 97, 108, 105, 100, 32, 102, 105, 108, 101, 32, 116, 121,
      112, 101, 32, 102, 111, 117, 110, 100, 58, 32>>
StoragePrefix == <<47, 115, 116, 111, 114, 97, 103, 101, 47>>

\* A part is a file part when p.filename() is Some.
IsFilePart(part) == IsSome(part.filename)

IsImageTypeInverted(ct) == ~IsPrefix(ImagePrefix, ct)
\* content_type.starts_with("image/")
IsImageType(ct) == IsPrefix(ImagePrefix, ct)

\* format!("invalid file type found: {}", content_type)
InvalidTypeMessage(ct) == InvalidTypePrefix \o ct

\* Path::new(name).extension(): the text after the last '.' of the file
\* name, None when there is no '.', when the only '.' leads the name, and
\* for "..". The modelled names hold no path separator.
Extension(name) ==
    LET dots == {k \in 1..Len(name) : name[k] = 46} IN
    IF dots = {} \/ name = <<46, 46>> THEN None
    ELSE LET last == CHOOSE k \in dots : \A m \in dots : m <= k IN
         IF last = 1 THEN None
         ELSE Some(SubSeq(name, last + 1, Len(name)))

\* Uuid::new_v4().to_string(), one text per identifier: 'u' and a digit
\* stand for the 36 characters of the hyphenated form.
UuidText(u) == <<117, 48 + u>>

NewFilenameFixed(u, ext) == <<117, 48, 46>> \o ext
\* format!("{}.{}", uuid, file_extension)
NewFilename(u, ext) == UuidText(u) \o <<46>> \o ext

\* format!("/storage/{}", new_filename)
RelFilepath(new_filename) == StoragePrefix \o new_filename

\* String::from_utf8(value): over the modelled bytes (ASCII and 0xFF) a
\* buffer is valid UTF-8 exactly when every byte is ASCII.
IsUtf8(bytes) == \A k \in 1..Len(bytes) : bytes[k] < 128

MapInsertKeepFirst(m, k, v) ==
    [x \in DOMAIN m \cup {k} |-> IF x \in DOMAIN m THEN m[x] ELSE v]
\* HashMap::insert: the value of an existing key is replaced.
MapInsert(m, k, v) == [x \in DOMAIN m \cup {k} |-> IF x = k THEN v ELSE m[x]]

\* tokio::fs::write(path, bytes): creates the file or replaces its contents.
FsWrite(st, path, bytes) == [x \in DOMAIN st \cup {path} |-> IF x = path THEN bytes ELSE st[x]]

EmptyMap == [x \in {} |-> <<>>]

UploadPending == [kind |-> "Pending", field |-> "", message |-> <<>>]
UploadOk == [UploadPending EXCEPT !.kind = "Ok"]
UploadParsingError(field, message) ==
    [UploadPending EXCEPT !.kind = "Err", !.field = field, !.message = message]

FormPending == [kind |-> "Pending", variant |-> "", cause |-> ""]
FormOk == [FormPending EXCEPT !.kind = "Ok"]
FormValidationError == [FormPending EXCEPT !.kind = "Err", !.variant = "ValidationError"]
FormPanic(cause) == [FormPending EXCEPT !.kind = "Panic", !.cause = cause]

\* The keys validate_create_params and validate_update_params read.
RecognizedKeys == {"name", "email", "password", "password_confirmation", "avatar"}

\* CreateUserParams / UpdateUserParams built from the map: a key of the map
\* gives Some(value), an absent key None.
UserParams(m) == [k \in RecognizedKeys |-> IF k \in DOMAIN m THEN Some(m[k]) ELSE None]
NoUserParams == [k \in RecognizedKeys |-> None]

\* ------------------------------------------------------------- inputs
LimitChars == {48, 49, 57, 43, 120}
LimitStrings == SeqsUpTo(LimitChars, MaxLimitLen)
SearchStrings == SeqsUpTo({32, 97}, MaxSearchLen)
SortByValues == {"name", "email", "since", "bogus"}
FindParams ==
    [search : {None} \cup {Some(s) : s \in SearchStrings},
     sort_by : {None} \cup {Some(s) : s \in SortByValues},
     limit : {None} \cup {Some(s) : s \in LimitStrings}]
NoFindParams == [search |-> None, sort_by |-> None, limit |-> None]

ErrorTexts == SeqsUpTo({97, 58, 32}, MaxErrLen)
\* What serde_path_to_error::deserialize and validate() make of a body.
JsonBodies ==
    {[decoded |-> TRUE, valid |-> v, error |-> <<>>] : v \in BOOLEAN}
    \cup {[decoded |-> FALSE, valid |-> FALSE, error |-> t] : t \in ErrorTexts}
NoJsonBody == [decoded |-> TRUE, valid |-> TRUE, error |-> <<>>]

ContentTypePng == ImagePrefix \o <<112, 110, 103>>
ContentTypeText == <<116, 101, 120, 116, 47, 112, 108, 97, 105, 110>>
FilenamePng == <<112, 46, 103>>
FilenamePlain == <<112>>
FilenameHidden == <<46, 103>>
TextStreams ==
    {[ok |-> TRUE, data |-> <<65>>], [ok |-> TRUE, data |-> <<66>>],
     [ok |-> TRUE, data |-> <<255>>], [ok |-> FALSE, data |-> <<>>]}
FileStreams ==
    {[ok |-> TRUE, data |-> <<65>>], [ok |-> TRUE, data |-> <<255>>],
     [ok |-> FALSE, data |-> <<>>]}
\* Plain fields (no filename) and file fields (a filename) of a form.
Parts ==
    [name : {"name", "avatar"}, filename : {None},
     content_type : {None, Some(ContentTypeText)}, stream : TextStreams]
    \cup
    [name : {"avatar"},
     filename : {Some(FilenamePng), Some(FilenamePlain), Some(FilenameHidden)},
     content_type : {None, Some(ContentTypePng), Some(ContentTypeText)},
     stream : FileStreams]
\* What form.try_collect() gives: the parts, or an error of the body stream.
Forms ==
    {[collected |-> TRUE, parts |-> ps] : ps \in SeqsUpTo(Parts, MaxParts)}
    \cup {[collected |-> FALSE, parts |-> <<>>]}
NoForm == [collected |-> TRUE, parts |-> <<>>]
\* The identifiers Uuid::new_v4() can return within one request; it is taken
\* not to return one identifier twice.
Uuids == 1..MaxParts

JsonRoutes == {"POST /companies", "PUT /companies", "DELETE /companies"}
FormRoutes == {"POST /users", "PUT /users"}
Routes == {"GET /companies", "GET /users"} \cup JsonRoutes \cup FormRoutes

VARIABLES route, pc, params, findResult, terms, bindVars, q,
          body, jsonResult, validated,
          form, i, file_extension, value, vars, storage, issued,
          uploadResult, userParams, formResult,
          typeChecked, streamRead, recorded

findVars == <<params, findResult, terms, bindVars, q>>
jsonVars == <<body, jsonResult, validated>>
loopVars == <<i, file_extension, value, vars>>
historyVars == <<typeChecked, streamRead, recorded>>
formVars == <<form, loopVars, storage, issued, uploadResult, userParams, formResult,
              historyVars>>
allVars == <<route, pc, findVars, jsonVars, formVars>>

FindPending == [kind |-> "Pending", req |-> FindRequestDefault, field |-> "", message |-> ""]

Init ==
    /\ route \in Routes
    /\ pc = "start"
    /\ IF route \in {"GET /companies", "GET /users"}
       THEN params \in FindParams ELSE params = NoFindParams
    /\ findResult = FindPending
    /\ terms = <<>>
    /\ bindVars = [x \in {} |-> <<>>]
    /\ q = ""
    /\ IF route \in JsonRoutes THEN body \in JsonBodies ELSE body = NoJsonBody
    /\ jsonResult = JsonPending
    /\ validated = FALSE
    /\ IF route \in FormRoutes THEN form \in Forms ELSE form = NoForm
    /\ i = 1
    /\ file_extension = None
    /\ value = <<>>
    /\ vars = EmptyMap
    /\ storage = EmptyMap
    /\ issued = {}
    /\ uploadResult = UploadPending
    /\ userParams = NoUserParams
    /\ formResult = FormPending
    /\ typeChecked = {}
    /\ streamRead = {}
    /\ recorded = EmptyMap

\* GET /companies: with_find_request of the company routes.
CompanyWithFindRequest ==
    /\ route = "GET /companies" /\ pc = "start"
    /\ findResult' = CompanyFindRequest(params)
    /\ pc' = "done"
    /\ UNCHANGED <<route, params, terms, bindVars, q, jsonVars, formVars>>

\* GET /users: with_find_request of the user routes.
UserWithFindRequest ==
    /\ route = "GET /users" /\ pc = "start"
    /\ findResult' = UserFindRequest(params)
    /\ pc' = IF findResult'.kind = "Ok" THEN "handler" ELSE "done"
    /\ UNCHANGED <<route, params, terms, bindVars, q, jsonVars, formVars>>

\* GET /users: the handler user::find_users builds its query.
FindUsers ==
    /\ route = "GET /users" /\ pc = "handler"
    /\ terms' = FindUsersTerms
    /\ bindVars' = FindUsersVars
    /\ q' = Join(FindUsersTerms)
    /\ pc' = "done"
    /\ UNCHANGED <<route, params, findResult, jsonVars, formVars>>

\* POST, PUT, DELETE /companies: validate_create_params,
\* validate_update_params, validate_delete_params of the company routes.
CompanyValidateParams ==
    /\ route \in JsonRoutes /\ pc = "start"
    /\ jsonResult' = DecodeAndValidate(body)
    /\ validated' = body.decoded
    /\ pc' = "done"
    /\ UNCHANGED <<route, body, findVars, formVars>>

\* POST, PUT /users: form.try_collect().await ... .unwrap(), then the call
\* of accept_uploading.
CollectForm ==
    /\ route \in FormRoutes /\ pc = "start"
    /\ IF form.collected
       THEN pc' = "part" /\ formResult' = formResult
       ELSE pc' = "done" /\ formResult' = FormPanic("try_collect")
    /\ UNCHANGED <<route, findVars, jsonVars, form, loopVars, storage, issued,
                   uploadResult, userParams, historyVars>>

Part == form.parts[i]

RejectPartContinue(ct) ==
    /\ uploadResult' = UploadParsingError("avatar", InvalidTypeMessage(ct))
    /\ pc' = "part"
    /\ i' = i + 1
\* accept_uploading: a file part of another type ends the function with
\* Err(ParsingError("avatar", msg)).
RejectPart(ct) ==
    /\ uploadResult' = UploadParsingError("avatar", InvalidTypeMessage(ct))
    /\ pc' = "assemble"
    /\ i' = i

\* accept_uploading, from the head of the loop to the read of the stream:
\* the type check of a file part.
CheckPart ==
    /\ pc = "part" /\ i <= Len(form.parts)
    /\ IF ~IsFilePart(Part)
       THEN /\ file_extension' = None
            /\ pc' = "drain"
            /\ UNCHANGED <<i, uploadResult, formResult, typeChecked>>
       ELSE IF ~IsSome(Part.content_type)
       THEN /\ formResult' = FormPanic("content_type")
            /\ pc' = "done"
            /\ UNCHANGED <<i, file_extension, uploadResult, typeChecked>>
       ELSE IF IsImageType(Unwrap(Part.content_type))
       THEN /\ typeChecked' = typeChecked \cup {i}
            /\ IF IsSome(Extension(Unwrap(Part.filename)))
               THEN /\ file_extension' = Extension(Unwrap(Part.filename))
                    /\ pc' = "drain"
                    /\ formResult' = formResult
               ELSE /\ formResult' = FormPanic("extension")
                    /\ pc' = "done"
                    /\ file_extension' = file_extension
            /\ UNCHANGED <<i, uploadResult>>
       ELSE /\ typeChecked' = typeChecked \cup {i}
            /\ RejectPart(Unwrap(Part.content_type))
            /\ UNCHANGED <<file_extension, formResult>>
    /\ UNCHANGED <<route, findVars, jsonVars, form, value, vars, storage, issued,
                   userParams, streamRead, recorded>>

\* accept_uploading: the stream of the part is folded into one buffer; a
\* part that is no file is then recorded as its text.
DrainPart ==
    /\ pc = "drain"
    /\ streamRead' = streamRead \cup {i}
    /\ IF ~Part.stream.ok
       THEN /\ formResult' = FormPanic("reading file error")
            /\ pc' = "done"
            /\ UNCHANGED <<i, value, vars, recorded>>
       ELSE IF IsSome(file_extension)
       THEN /\ value' = Part.stream.data
            /\ pc' = "write"
            /\ UNCHANGED <<i, vars, recorded, formResult>>
       ELSE IF IsUtf8(Part.stream.data)
       THEN /\ value' = Part.stream.data
            /\ vars' = MapInsert(vars, Part.name, Part.stream.data)
            /\ recorded' = MapInsert(recorded, i, Part.stream.data)
            /\ i' = i + 1
            /\ pc' = "part"
            /\ UNCHANGED formResult
       ELSE /\ formResult' = FormPanic("from_utf8")
            /\ pc' = "done"
            /\ UNCHANGED <<i, value, vars, recorded>>
    /\ UNCHANGED <<route, findVars, jsonVars, form, file_extension, storage, issued,
                   uploadResult, userParams, typeChecked>>

\* accept_uploading: the buffer of a file part is written under a fresh name
\* and the part is recorded as the relative path; a failed write panics.
WritePart ==
    /\ pc = "write"
    /\ \E u \in Uuids \ issued, written \in BOOLEAN :
          LET new_filename == NewFilename(u, Unwrap(file_extension)) IN
          /\ issued' = issued \cup {u}
          /\ IF written
             THEN /\ storage' = FsWrite(storage, new_filename, value)
                  /\ vars' = MapInsert(vars, Part.name, RelFilepath(new_filename))
                  /\ recorded' = MapInsert(recorded, i, RelFilepath(new_filename))
                  /\ i' = i + 1
                  /\ pc' = "part"
                  /\ UNCHANGED formResult
             ELSE /\ formResult' = FormPanic("error writing file")
                  /\ pc' = "done"
                  /\ UNCHANGED <<storage, vars, recorded, i>>
    /\ UNCHANGED <<route, findVars, jsonVars, form, file_extension, value,
                   uploadResult, userParams, typeChecked, streamRead>>

\* accept_uploading: the loop is over, Ok(vars) is returned.
ReturnVars ==
    /\ pc = "part" /\ i > Len(form.parts)
    /\ uploadResult' = UploadOk
    /\ pc' = "assemble"
    /\ UNCHANGED <<route, findVars, jsonVars, form, loopVars, storage, issued,
                   userParams, formResult, historyVars>>

\* POST, PUT /users: accept_uploading(parts).await.unwrap(), the parameters
\* read from the map, and params.validate().
UserValidateParams ==
    /\ pc = "assemble"
    /\ IF uploadResult.kind = "Err"
       THEN /\ formResult' = FormPanic("accept_uploading")
            /\ UNCHANGED userParams
       ELSE /\ userParams' = UserParams(vars)
            /\ \E valid \in BOOLEAN :
                  formResult' = IF valid THEN FormOk ELSE FormValidationError
    /\ pc' = "done"
    /\ UNCHANGED <<route, findVars, jsonVars, form, loopVars, storage, issued,
                   uploadResult, historyVars>>

Next ==
    \/ CompanyWithFindRequest
    \/ UserWithFindRequest
    \/ FindUsers
    \/ CompanyValidateParams
    \/ CollectForm
    \/ CheckPart
    \/ DrainPart
    \/ WritePart
    \/ ReturnVars
    \/ UserValidateParams

Spec == Init /\ [][Next]_allVars

\* ======================================================== properties

FindRoutes == {"GET /companies", "GET /users"}
FindDone == route \in FindRoutes /\ findResult.kind # "Pending"
\* The sets of sort fields the two resources are documented to allow.
AllowedSortBy == IF route = "GET /companies" THEN {"name", "since"} ELSE {"name", "email"}
SortByPasses == ~IsSome(params.sort_by) \/ Unwrap(params.sort_by) \in AllowedSortBy

\* C1: a limit string that parses to n gives a FindRequest with limit n when
\* 1 <= n <= 100, and a ParsingError on field "limit" for any other n.
C1_LimitRange ==
    (FindDone /\ SortByPasses /\ IsSome(params.limit) /\ ParseU32(Unwrap(params.limit)).ok)
    => LET n == ParseU32(Unwrap(params.limit)).value IN
       IF 1 <= n /\ n <= 100
       THEN findResult.kind = "Ok" /\ findResult.req.limit = Some(n)
       ELSE findResult.kind = "Err" /\ findResult.field = "limit"

\* The field names a sort_by message enumerates.
MessageNames(message) ==
    CASE message = "Must be one of name and email" -> {"name", "email"}
      [] message = "Must be one of name and since" -> {"name", "since"}
      [] OTHER -> {}

\* C2: a sort_by value is accepted only if it is a member of the resource's
\* set; any other value fails on field "sort_by" with a message that names
\* exactly the set the resource accepts.
C2_SortByMessage ==
    (FindDone /\ IsSome(params.sort_by))
    => IF Unwrap(params.sort_by) \in AllowedSortBy
       THEN ~(findResult.kind = "Err" /\ findResult.field = "sort_by")
       ELSE /\ findResult.kind = "Err"
            /\ findResult.field = "sort_by"
            /\ MessageNames(findResult.message) = AllowedSortBy

\* C3: on user-supplied input the pipeline ends in a typed request or a
\* rejection value and never panics; only a failure of the storage
\* collaborator may be fatal.
C3_NeverPanics ==
    /\ jsonResult.kind # "Panic"
    /\ formResult.kind = "Panic" => formResult.cause = "error writing file"

Parts_ == form.parts
FileIndexes(S) == {k \in S : IsFilePart(Parts_[k])}
\* The part declares a content type that begins with "image/".
DeclaresImage(part) ==
    /\ IsSome(part.content_type)
    /\ Len(Unwrap(part.content_type)) >= 6
    /\ \A k \in 1..6 : Unwrap(part.content_type)[k] = <<105, 109, 97, 103, 101, 47>>[k]
\* The stored name "<uuid>.<ext>" behind a recorded path, if it has that shape.
IsStoredPathOf(path, filename, f) ==
    /\ path = <<47, 115, 116, 111, 114, 97, 103, 101, 47>> \o f
    /\ \E u \in Uuids, k \in 2..Len(filename) :
          /\ filename[k] = 46
          /\ \A m \in (k + 1)..Len(filename) : filename[m] # 46
          /\ f = <<117, 48 + u, 46>> \o SubSeq(filename, k + 1, Len(filename))

\* C4: the type check applies exactly to the parts that carry a filename: a
\* file part of a type with prefix "image/" is recorded as
\* "/storage/<uuid>.<extension>" with its bytes written under that name; a
\* file part of another declared type ends the ingestion with
\* ParsingError("avatar", "invalid file type found: <type>") and writes no
\* file; a part without a filename is never type-checked and is recorded as
\* its text.
C4_TypeEnforcement ==
    /\ \A k \in typeChecked : IsFilePart(Parts_[k])
    /\ \A k \in typeChecked :
          ~DeclaresImage(Parts_[k]) => uploadResult.kind = "Err" /\ i = k
    /\ \A k \in (DOMAIN recorded) \cup streamRead :
          IsFilePart(Parts_[k]) =>
             /\ k \in typeChecked
             /\ DeclaresImage(Parts_[k])
    /\ \A k \in DOMAIN recorded :
          IF IsFilePart(Parts_[k])
          THEN \E f \in DOMAIN storage :
                  /\ IsStoredPathOf(recorded[k], Unwrap(Parts_[k].filename), f)
                  /\ storage[f] = Parts_[k].stream.data
          ELSE recorded[k] = Parts_[k].stream.data
    /\ uploadResult.kind = "Err" =>
          /\ i \in 1..Len(Parts_) /\ IsFilePart(Parts_[i])
          /\ IsSome(Parts_[i].content_type) /\ ~DeclaresImage(Parts_[i])
          /\ uploadResult.field = "avatar"
          /\ uploadResult.message =
                <<105, 110, 118, 97, 108, 105, 100, 32, 102, 105, 108, 101, 32, 116, 121,
                  112, 101, 32, 102, 111, 117, 110, 100, 58, 32>>
                \o Unwrap(Parts_[i].content_type)
          /\ i \notin DOMAIN recorded
          /\ Cardinality(DOMAIN storage) = Cardinality(FileIndexes(1..(i - 1)))

\* An image file was stored and recorded, and a later file part of another
\* type was rejected.
C4_Witness ==
    /\ uploadResult.kind = "Err"
    /\ \E k \in DOMAIN recorded : IsFilePart(Parts_[k]) /\ DOMAIN storage # {}

LastIndexOf(n) ==
    CHOOSE k \in 1..Len(Parts_) :
        /\ Parts_[k].name = n
        /\ \A m \in 1..Len(Parts_) : Parts_[m].name = n => m <= k

\* C5: after a successful ingestion the map holds, for every field name of
\* the form, the value derived from the last part carrying that name.
C5_LastWriterWins ==
    uploadResult.kind = "Ok" =>
       /\ DOMAIN vars = {Parts_[k].name : k \in 1..Len(Parts_)}
       /\ \A n \in DOMAIN vars :
             /\ vars[n] = recorded[LastIndexOf(n)]
             /\ ~IsFilePart(Parts_[LastIndexOf(n)]) =>
                   vars[n] = Parts_[LastIndexOf(n)].stream.data

\* Two parts of one name and different values were ingested: "A" then "B".
C5_Witness ==
    /\ uploadResult.kind = "Ok"
    /\ Len(Parts_) = 2
    /\ Parts_[1].name = "name" /\ Parts_[2].name = "name"
    /\ Parts_[1].stream.data = <<65>> /\ Parts_[2].stream.data = <<66>>
    /\ vars["name"] = <<66>>

RECURSIVE TrimStart(_)
TrimStart(s) == IF s # <<>> /\ s[1] = 32 THEN TrimStart(Tail(s)) ELSE s
RECURSIVE TrimEnd(_)
TrimEnd(s) == IF s # <<>> /\ s[Len(s)] = 32 THEN TrimEnd(SubSeq(s, 1, Len(s) - 1)) ELSE s
Trim(s) == TrimEnd(TrimStart(s))

HasFilter(req) == IsSome(req.search) /\ Trim(Unwrap(req.search)) # <<>>
\* The clauses between the base clause and RETURN that a request asks for,
\* in the words of the lines of find_users that are commented out.
ExpectedClauses(req) ==
    (IF HasFilter(req) THEN <<"FILTER CONTAINS(x.name, @@search)">> ELSE <<>>)
    \o (IF IsSome(req.sort_by) THEN <<"SORT x.@@sort_by ASC">> ELSE <<>>)
    \o (IF IsSome(req.limit) THEN <<"LIMIT 0, @@limit">> ELSE <<>>)
ExpectedBound(req) ==
    (IF HasFilter(req) THEN {"@search"} ELSE {})
    \cup (IF IsSome(req.sort_by) THEN {"@sort_by"} ELSE {})
    \cup (IF IsSome(req.limit) THEN {"@limit"} ELSE {})

UsersQueryBuilt == route = "GET /users" /\ pc = "done" /\ findResult.kind = "Ok"

\* C6: the query is the base clause followed by a filter clause iff search is
\* non-empty after trimming, a sort clause iff sort_by is present and a limit
\* clause iff limit is present, in that order, the values being bound
\* variables.
C6_ClausesFollowRequest ==
    UsersQueryBuilt =>
       /\ Len(terms) >= 2
       /\ SubSeq(terms, 2, Len(terms) - 1) = ExpectedClauses(findResult.req)
       /\ DOMAIN bindVars = ExpectedBound(findResult.req)

\* C7: the users find query iterates over the users collection.
C7_UsersCollection ==
    UsersQueryBuilt => terms # <<>> /\ terms[1] = "FOR x IN users"

HasSeparator(t) == \E k \in 1..(Len(t) - 1) : t[k] = 58 /\ t[k + 1] = 32
FirstSeparator(t) ==
    CHOOSE k \in 1..(Len(t) - 1) :
        /\ t[k] = 58 /\ t[k + 1] = 32
        /\ \A m \in 1..(k - 1) : ~(t[m] = 58 /\ t[m + 1] = 32)

\* C8: a failed structural decode gives ParsingError(field, message), field
\* being the error text before its first ": " and message all of the text
\* after that separator, and the semantic validation is not run.
C8_SplitAtFirstSeparator ==
    (route \in JsonRoutes /\ pc = "done" /\ ~body.decoded /\ HasSeparator(body.error))
    => /\ jsonResult.kind = "Err" /\ jsonResult.variant = "ParsingError"
       /\ jsonResult.field = SubSeq(body.error, 1, FirstSeparator(body.error) - 1)
       /\ jsonResult.message =
             SubSeq(body.error, FirstSeparator(body.error) + 2, Len(body.error))
       /\ ~validated

IngestionFailed == uploadResult.kind = "Err" \/ formResult.kind = "Panic"

\* C9: the parts are processed one at a time in arrival order: the stream of
\* a part is read, and its file written, only after every earlier part has
\* been drained and recorded, and a failure at a part stops the processing.
C9_Sequential ==
    /\ \A j \in streamRead : \A k \in 1..(j - 1) : k \in DOMAIN recorded
    /\ \A j \in DOMAIN recorded :
          j \in streamRead /\ \A k \in 1..(j - 1) : k \in DOMAIN recorded
    /\ Cardinality(DOMAIN storage) = Cardinality(FileIndexes(DOMAIN recorded))
    /\ uploadResult.kind = "Ok" => DOMAIN recorded = 1..Len(Parts_)
    /\ IngestionFailed =>
          ~ENABLED CheckPart /\ ~ENABLED DrainPart /\ ~ENABLED WritePart

\* The second part failed after the first had been stored and recorded.
C9_Witness ==
    /\ IngestionFailed
    /\ Len(Parts_) = 2 /\ DOMAIN recorded = {1} /\ streamRead = {1, 2}
    /\ DOMAIN storage # {}

\* C10: a stored file is never deleted or rewritten by a later step, so the
\* files of the parts recorded so far are present with their bytes in every
\* later state, also after a rejection or a failed validation.
C10_StorageOnlyGrows ==
    /\ [](\A k \in FileIndexes(DOMAIN recorded) :
             \E f \in DOMAIN storage :
                /\ recorded[k] = <<47, 115, 116, 111, 114, 97, 103, 101, 47>> \o f
                /\ storage[f] = Parts_[k].stream.data)
    /\ [][\A f \in DOMAIN storage : f \in DOMAIN storage' /\ storage'[f] = storage[f]]_allVars

\* The validation of the assembled request failed after two files had been
\* written.
C10_Witness ==
    /\ formResult.kind = "Err" /\ formResult.variant = "ValidationError"
    /\ Cardinality(DOMAIN storage) = 2

=============================================================================
